---- MODULE Spec2Model ----
(***************************************************************************)
(* Model of the Vimeo downloader actor (src/src/main.py).                  *)
(*                                                                         *)
(* Python strings whose characters matter (URLs, video ids, extensions,    *)
(* quality labels, storage keys) are sequences of one-character strings.   *)
(* Strings that are only compared for equality (format selectors, error    *)
(* messages, content types) are TLA+ strings.  An optional value is        *)
(* None == <<>> or Some(x) == <<x>>.                                       *)
(***************************************************************************)
EXTENDS Integers, Sequences, FiniteSets, TLC

VARIABLES
    pc,                  \* position of main / process_urls / process_url / process_single_video
    urls,                \* main: the parsed input list
    valid_urls,          \* main: the URLs that passed validation
    batch,               \* process_urls: None until called, then Some(its urls argument)
    download_mode,       \* main: normalised downloadMode
    quality,             \* main: normalised quality
    cookies,             \* main: whether a cookies string was supplied
    proxy_url,           \* main: static proxy URL, None or Some(p)
    proxy_configuration, \* main: whether a rotating-proxy provider exists
    active_proxy_url,    \* process_urls: proxy used for the current URL
    store_has_id,        \* platform: whether the opened store exposes an id
    total_processed,     \* process_urls counter
    total_success,       \* process_urls counter
    entries,             \* process_url: entries still to be processed
    results,             \* process_url: records accumulated for the current URL
    cookie_dir,          \* process_url: its cookie temp dir exists
    info,                \* process_single_video: the item being processed
    scratch,             \* download_video_file: scratch directories that exist
    dl,                  \* download_video_file: state of the current call
    dataset,             \* Actor.push_data: records appended, in order
    kv_store,            \* Actor.set_value: puts done, in order
    calls,               \* history: one entry per process_single_video call
    url_log,             \* history: one entry per URL iterated by process_urls
    faults,              \* number of failures injected so far
    fn                   \* input and output of a pure function under test

vars == <<pc, urls, valid_urls, batch, download_mode, quality, cookies, proxy_url,
          proxy_configuration, active_proxy_url, store_has_id, total_processed,
          total_success, entries, results, cookie_dir, info, scratch, dl,
          dataset, kv_store, calls, url_log, faults, fn>>

----------------------------------------------------------------------------
(* Bounds of the model *)

\* longest URL list in the job input given to main
MaxInputUrls == 3
\* longest URL list given to process_urls
MaxUrls == 2
\* most entries (null ones included) the extraction library returns in one run
MaxEntries == 3
\* most failures injected into one run
MaxFaults == 1
\* longest video id given to _generate_safe_key on its own
MaxIdLen == 262
\* longest free-form cookie text given to _convert_json_cookies_to_netscape
MaxCookieLen == 3
\* most cookie objects in a JSON list given to it
MaxCookies == 2

----------------------------------------------------------------------------
(* Strings *)

None == <<>>
Some(x) == <<x>>

LowerAlpha ==
    <<"a","b","c","d","e","f","g","h","i","j","k","l","m",
      "n","o","p","q","r","s","t","u","v","w","x","y","z">>
UpperAlpha ==
    <<"A","B","C","D","E","F","G","H","I","J","K","L","M",
      "N","O","P","Q","R","S","T","U","V","W","X","Y","Z">>

\* the lower-case letter of each upper-case letter, and the reverse
ToLower ==
    [c \in {UpperAlpha[i] : i \in 1..26} |->
        LowerAlpha[CHOOSE i \in 1..26 : UpperAlpha[i] = c]]
ToUpper ==
    [c \in {LowerAlpha[i] : i \in 1..26} |->
        UpperAlpha[CHOOSE i \in 1..26 : LowerAlpha[i] = c]]

\* str.lower() on one character
LowerChar(c) == IF c \in DOMAIN ToLower THEN ToLower[c] ELSE c

\* str.upper() on one character (used to build mixed-case inputs)
UpperChar(c) == IF c \in DOMAIN ToUpper THEN ToUpper[c] ELSE c

\* s.lower()
Lower(s) == [i \in 1..Len(s) |-> LowerChar(s[i])]

\* s.endswith(suffix)
EndsWith(s, suffix) ==
    /\ Len(s) >= Len(suffix)
    /\ SubSeq(s, Len(s) - Len(suffix) + 1, Len(s)) = suffix

\* s.startswith(prefix)
StartsWith(s, prefix) ==
    /\ Len(s) >= Len(prefix)
    /\ SubSeq(s, 1, Len(prefix)) = prefix

\* sub in s
Contains(s, sub) ==
    \E i \in 1..(Len(s) - Len(sub) + 1) : SubSeq(s, i, i + Len(sub) - 1) = sub

\* s[:n], Python semantics: a negative n counts from the end
SliceTo(s, n) ==
    IF n >= 0
    THEN SubSeq(s, 1, IF n < Len(s) THEN n ELSE Len(s))
    ELSE SubSeq(s, 1, IF Len(s) + n > 0 THEN Len(s) + n ELSE 0)

\* s.lstrip('.')
RECURSIVE LstripDot(_)
LstripDot(s) ==
    IF s # <<>> /\ Head(s) = "." THEN LstripDot(Tail(s)) ELSE s

S_best == <<"b","e","s","t">>
S_720p == <<"7","2","0","p">>
S_720 == <<"7","2","0">>
S_1080p == <<"1","0","8","0","p">>
S_1080 == <<"1","0","8","0">>
S_audio_only == <<"a","u","d","i","o","_","o","n","l","y">>
S_audio == <<"a","u","d","i","o">>
S_4k == <<"4","k">>
S_unknown == <<"u","n","k","n","o","w","n">>
S_vimeo_com == <<"v","i","m","e","o",".","c","o","m">>

----------------------------------------------------------------------------
(* Extension tables *)

VIDEO_FILE_EXTENSIONS ==
    { <<".","m","p","4">>, <<".","m","k","v">>, <<".","w","e","b","m">>,
      <<".","m","o","v">>, <<".","m","4","v">> }

AUDIO_FILE_EXTENSIONS ==
    { <<".","m","p","3">>, <<".","m","4","a">>, <<".","a","a","c">>,
      <<".","o","p","u","s">>, <<".","o","g","g">>, <<".","w","a","v">>,
      <<".","f","l","a","c">> }

MEDIA_FILE_EXTENSIONS == VIDEO_FILE_EXTENSIONS \cup AUDIO_FILE_EXTENSIONS

CONTENT_TYPE_BY_EXTENSION ==
    [e \in (MEDIA_FILE_EXTENSIONS) |->
        CASE e = <<".","m","p","4">> -> "video/mp4"
          [] e = <<".","m","k","v">> -> "video/x-matroska"
          [] e = <<".","w","e","b","m">> -> "video/webm"
          [] e = <<".","m","o","v">> -> "video/quicktime"
          [] e = <<".","m","4","v">> -> "video/x-m4v"
          [] e = <<".","m","4","a">> -> "audio/mp4"
          [] e = <<".","a","a","c">> -> "audio/aac"
          [] e = <<".","o","p","u","s">> -> "audio/ogg"
          [] e = <<".","o","g","g">> -> "audio/ogg"
          [] e = <<".","w","a","v">> -> "audio/wav"
          [] e = <<".","f","l","a","c">> -> "audio/flac"
          [] e = <<".","m","p","3">> -> "audio/mpeg"]

\* _guess_content_type(extension)
_guess_content_type(extension) ==
    IF extension = <<>>
    THEN "application/octet-stream"
    ELSE LET low == Lower(extension)
             ext == IF StartsWith(low, <<".">>) THEN low ELSE <<".">> \o low
         IN  IF ext \in DOMAIN CONTENT_TYPE_BY_EXTENSION
             THEN CONTENT_TYPE_BY_EXTENSION[ext]
             ELSE "application/octet-stream"

----------------------------------------------------------------------------
(* Format Selector Builder *)

\* "for fmt in candidates: if fmt not in seen: ordered.append(fmt)"
RECURSIVE Dedup(_, _)
Dedup(candidates, ordered) ==
    IF candidates = <<>>
    THEN ordered
    ELSE IF \E i \in 1..Len(ordered) : ordered[i] = Head(candidates)
         THEN Dedup(Tail(candidates), ordered)
         ELSE Dedup(Tail(candidates), Append(ordered, Head(candidates)))

\* a table whose 720p row lost its last line
FormatChainShort(q) ==
    IF q \in {S_audio_only, S_audio}
    THEN <<"bestaudio/best", "best">>
    ELSE IF q \in {S_1080p, S_1080}
    THEN <<"bestvideo*[height<=1080][fps<=60]+bestaudio/best[height<=1080]",
           "bestvideo*[height<=1080]+bestaudio/best",
           "bestvideo[height<=1440]+bestaudio/best",
           "best">>
    ELSE IF q \in {S_720p, S_720}
    THEN <<"bestvideo*[height<=720][fps<=60]+bestaudio/best[height<=720]",
           "bestvideo*[height<=720]+bestaudio/best",
           "bestvideo[height<=1080]+bestaudio/best">>
    ELSE <<"bestvideo*+bestaudio/best",
           "bestvideo+bestaudio/best",
           "best">>

\* the candidate list chosen for a lower-cased quality q, before deduplication
FormatChain(q) ==
    IF q \in {S_audio_only, S_audio}
    THEN <<"bestaudio/best", "best">>
    ELSE IF q \in {S_1080p, S_1080}
    THEN <<"bestvideo*[height<=1080][fps<=60]+bestaudio/best[height<=1080]",
           "bestvideo*[height<=1080]+bestaudio/best",
           "bestvideo[height<=1440]+bestaudio/best",
           "best">>
    ELSE IF q \in {S_720p, S_720}
    THEN <<"bestvideo*[height<=720][fps<=60]+bestaudio/best[height<=720]",
           "bestvideo*[height<=720]+bestaudio/best",
           "bestvideo[height<=1080]+bestaudio/best",
           "best">>
    ELSE <<"bestvideo*+bestaudio/best",
           "bestvideo+bestaudio/best",
           "best">>

\* _build_format_candidates(quality); quality is None or Some(string)
_build_format_candidates(q_in) ==
    LET q == Lower(IF q_in = None \/ q_in[1] = <<>> THEN S_best ELSE q_in[1])
    IN  Dedup(FormatChain(q), <<>>)

----------------------------------------------------------------------------
(* Storage key *)

\* the key length the store allows
MaxKeyLen == 256

\* a key that is cut to the limit and nothing more
generate_key_truncate_only(video_id, extension) ==
    SliceTo(video_id \o <<".">> \o extension, MaxKeyLen)

\* _generate_safe_key(video_id, extension)
_generate_safe_key(video_id, extension) ==
    LET key == video_id \o <<".">> \o extension
        cut == SliceTo(key, MaxKeyLen)
    IN  IF Len(key) > MaxKeyLen
        THEN IF ~EndsWith(cut, <<".">> \o extension)
             THEN SliceTo(video_id, MaxKeyLen - Len(extension) - 1)
                    \o <<".">> \o extension
             ELSE cut
        ELSE key

----------------------------------------------------------------------------
(* Cookie Normalizer *)

(* A cookie text is a sequence of tokens.  JSON punctuation that carries no
   choice (quotes, colons, commas) is left out: "[" "]" "{" "}" delimit
   lists and objects, an object is a run of key tokens each followed by a
   value, and a scalar is one token. *)

\* the line "# Netscape HTTP Cookie File"; as a JSON token, a string holding it
T_marker == "# Netscape HTTP Cookie File"

\* JSON scalars: a non-empty string, a string holding the marker, 0, null
JsonScalars == {"s", T_marker, "0", "null"}

\* object keys a cookie text can hold
JsonKeys == {"name", "value"}

\* a test that never finds the marker
HasMarkerNever(text) == FALSE

\* "marker in json_cookies"
HasMarker(text) == \E i \in 1..Len(text) : text[i] = T_marker

\* a parsed JSON value
JScalar(tok) == [kind |-> "scalar", tok |-> tok, items |-> <<>>]
JList(items) == [kind |-> "list", tok |-> "", items |-> items]
JDict(fields) == [kind |-> "dict", tok |-> "", items |-> fields]

ParseFail == [ok |-> FALSE, val |-> JScalar("null"), next |-> 0]

\* json.loads: the value starting at token i, and the position after it
RECURSIVE ParseValue(_, _)
RECURSIVE ParseItems(_, _, _)
RECURSIVE ParseFields(_, _, _)
ParseValue(t, i) ==
    IF i > Len(t) THEN ParseFail
    ELSE IF t[i] \in JsonScalars
    THEN [ok |-> TRUE, val |-> JScalar(t[i]), next |-> i + 1]
    ELSE IF t[i] = "[" THEN ParseItems(t, i + 1, <<>>)
    ELSE IF t[i] = "{" THEN ParseFields(t, i + 1, <<>>)
    ELSE ParseFail

ParseItems(t, i, acc) ==
    IF i > Len(t) THEN ParseFail
    ELSE IF t[i] = "]"
    THEN [ok |-> TRUE, val |-> JList(acc), next |-> i + 1]
    ELSE LET r == ParseValue(t, i)
         IN  IF r.ok THEN ParseItems(t, r.next, Append(acc, r.val))
             ELSE ParseFail

ParseFields(t, i, acc) ==
    IF i > Len(t) THEN ParseFail
    ELSE IF t[i] = "}"
    THEN [ok |-> TRUE, val |-> JDict(acc), next |-> i + 1]
    ELSE IF t[i] \in JsonKeys
    THEN LET r == ParseValue(t, i + 1)
         IN  IF r.ok
             THEN ParseFields(t, r.next, Append(acc, [key |-> t[i], val |-> r.val]))
             ELSE ParseFail
    ELSE ParseFail

\* json.loads(json_cookies): raises JSONDecodeError unless the whole text
\* is one value
json_loads(text) ==
    LET r == ParseValue(text, 1)
    IN  IF r.ok /\ r.next = Len(text) + 1 THEN r ELSE ParseFail

\* "key in d"
HasKey(d, key) == \E i \in 1..Len(d.items) : d.items[i].key = key

\* d.get(key): the value of the last field with that key, null when absent
DictGet(d, key) ==
    IF HasKey(d, key)
    THEN d.items[CHOOSE i \in 1..Len(d.items) :
                    /\ d.items[i].key = key
                    /\ \A j \in (i + 1)..Len(d.items) : d.items[j].key # key].val
    ELSE JScalar("null")

\* bool(v)
Truthy(v) ==
    IF v.kind = "scalar" THEN v.tok \in {"s", T_marker} ELSE v.items # <<>>

\* f"{v}"
RECURSIVE Render(_)
RECURSIVE RenderAll(_, _)
Render(v) ==
    IF v.kind = "scalar" THEN <<IF v.tok = "null" THEN "None" ELSE v.tok>>
    ELSE IF v.kind = "list" THEN <<"[">> \o RenderAll(v.items, FALSE) \o <<"]">>
    ELSE <<"{">> \o RenderAll(v.items, TRUE) \o <<"}">>

RenderAll(items, keyed) ==
    IF items = <<>> THEN <<>>
    ELSE (IF keyed
          THEN <<Head(items).key>> \o Render(Head(items).val)
          ELSE Render(Head(items)))
         \o RenderAll(Tail(items), keyed)

\* the default expiry _format_cookie_as_netscape writes
DefaultExpires == 2147483647

\* _format_cookie_as_netscape(cookie): None, or Some(line); the cookie texts
\* explored hold no domain, path, secure, expiry or httpOnly field
_format_cookie_as_netscape(cookie) ==
    LET name == DictGet(cookie, "name")
        value == DictGet(cookie, "value")
    IN  IF ~Truthy(name) \/ value = JScalar("null")
        THEN None
        ELSE Some(<<".vimeo.com", "\t", "TRUE", "\t", "/", "\t", "FALSE", "\t",
                    ToString(DefaultExpires), "\t">>
                  \o Render(name) \o <<"\t">> \o Render(value))

\* the three header lines and the empty line
NetscapeHeader ==
    << <<T_marker>>, <<"# https://curl.se/docs/http-cookies.html">>,
       <<"# This file was generated by Vimeo Video Downloader Actor">>, <<>> >>

\* the lines appended for the cookies of a list
RECURSIVE CookieLines(_)
CookieLines(items) ==
    IF items = <<>> THEN <<>>
    ELSE (IF Head(items).kind = "dict"
             /\ _format_cookie_as_netscape(Head(items)) # None
          THEN <<_format_cookie_as_netscape(Head(items))[1]>>
          ELSE <<>>)
         \o CookieLines(Tail(items))

\* '\n'.join(lines)
RECURSIVE JoinLines(_)
JoinLines(lines) ==
    IF lines = <<>> THEN <<>>
    ELSE IF Len(lines) = 1 THEN Head(lines)
    ELSE Head(lines) \o <<"\n">> \o JoinLines(Tail(lines))

\* _convert_json_cookies_to_netscape(json_cookies)
_convert_json_cookies_to_netscape(json_cookies) ==
    IF json_cookies = <<>> THEN <<>>
    ELSE IF HasMarker(json_cookies) THEN json_cookies
    ELSE LET r == json_loads(json_cookies)
         IN  IF ~r.ok THEN json_cookies
             ELSE IF r.val.kind = "list"
             THEN JoinLines(NetscapeHeader \o CookieLines(r.val.items))
             ELSE IF r.val.kind = "dict" /\ HasKey(r.val, "name")
             THEN JoinLines(NetscapeHeader \o CookieLines(<<r.val>>))
             ELSE JoinLines(NetscapeHeader)

----------------------------------------------------------------------------
(* Inputs the environment can supply *)

U_plain == <<"v","i","m","e","o",".","c","o","m","/","1">>
U_sub == <<"a",".","v","i","m","e","o",".","c","o","m">>
U_other == <<"v","i","m","e","o",".","c","o","/","m">>
U_short == <<"x",".","c","o","m">>

\* URLs a job input can hold
UrlPool == {U_plain, U_sub, U_other, U_short}

\* every list of at most n elements of S
SeqsUpTo(S, n) == UNION {[1..k -> S] : k \in 0..n}

\* Extracted items: a key that is absent from the dict is None here.  Every
\* item the extraction library returns is a non-empty dict.
Item1 ==
    [id |-> Some(<<"1","2">>), title |-> Some("t1"),
     webpage_url |-> Some(U_plain), url |-> None]
Item2 ==
    [id |-> Some(<<"a","/","b">>), title |-> Some("t2"),
     webpage_url |-> None, url |-> Some(U_sub)]
Item3 ==
    [id |-> None, title |-> Some("t3"), webpage_url |-> None, url |-> None]

Items == {Item1, Item2, Item3}

\* An entry of a collection: None (null) or Some(item)
EntryPool == {None, Some(Item1), Some(Item2)}

\* Files the library can leave in the scratch directory
F_mp4 == [suffix |-> <<".","m","p","4">>, mtime |-> 1, size |-> 7]
F_MP3 == [suffix |-> <<".","M","P","3">>, mtime |-> 2, size |-> 3]
F_part == [suffix |-> <<".","p","a","r","t">>, mtime |-> 3, size |-> 1]

\* what a download that reports success leaves behind for an item
MediaOf(inf) == IF inf.id = Some(<<"1","2">>) THEN {F_mp4, F_part} ELSE {F_mp4, F_MP3}

\* what a download that reports success without a media file leaves behind
EmptyOutcomes == { {}, {F_part} }

\* outcomes of main's proxy set-up: custom proxyUrls, a provider, or neither
ProxyCustom == [proxy_url |-> Some("custom"), proxy_configuration |-> FALSE]
ProxyProvider == [proxy_url |-> Some("fresh"), proxy_configuration |-> TRUE]
ProxyProviderNoUrl == [proxy_url |-> None, proxy_configuration |-> TRUE]
ProxyNone == [proxy_url |-> None, proxy_configuration |-> FALSE]

\* Job inputs main can be given besides the URL list: the raw
\* 'downloadMode' and 'quality' fields, whether cookies were given, the
\* outcome of the proxy set-up, whether the platform's store exposes an id.
JobInputs ==
    [mode : {"videos", "metadata_only", "bogus"},
     quality : {S_audio_only, S_4k},
     cookies : BOOLEAN,
     proxy : {ProxyCustom, ProxyProvider, ProxyProviderNoUrl, ProxyNone},
     store_has_id : BOOLEAN]

\* The job settings under which the batch is explored.
BatchSettings ==
    { [mode |-> "videos", quality |-> S_audio_only, cookies |-> TRUE,
       proxy |-> ProxyCustom, store_has_id |-> TRUE],
      [mode |-> "videos", quality |-> S_best, cookies |-> FALSE,
       proxy |-> ProxyNone, store_has_id |-> FALSE],
      [mode |-> "metadata_only", quality |-> S_best, cookies |-> TRUE,
       proxy |-> ProxyProvider, store_has_id |-> TRUE],
      [mode |-> "metadata_only", quality |-> S_720p, cookies |-> FALSE,
       proxy |-> ProxyProviderNoUrl, store_has_id |-> TRUE] }

----------------------------------------------------------------------------
(* Records *)

\* info.get('webpage_url') or info.get('url')
ItemUrl(inf) == IF inf.webpage_url # None THEN inf.webpage_url ELSE inf.url

\* the metadata dict of process_single_video before the download fields
\* (descriptive fields that nothing reads afterwards are left out)
BaseMetadata(inf, q) ==
    [video_id |-> inf.id, title |-> inf.title, url |-> ItemUrl(inf),
     collected_at |-> "now", quality_requested |-> q]

\* the record returned in metadata-only mode
MetadataOnlyRecord(inf, q) ==
    [video_id |-> inf.id, title |-> inf.title, url |-> ItemUrl(inf),
     collected_at |-> "now", quality_requested |-> q,
     file_size |-> None, file_extension |-> None, file_path |-> None,
     downloaded_format |-> None, download_url |-> None]

\* the direct retrieval URL built from the store id and the key
DownloadUrl(store_id, key) == [store |-> store_id, key |-> key]

\* the record returned after a download; has_url: download_url was set
DownloadedRecord(inf, q, d, key, has_url, store_id) ==
    [video_id |-> inf.id, title |-> inf.title, url |-> ItemUrl(inf),
     collected_at |-> "now", quality_requested |-> q,
     file_size |-> Some(d.size), file_extension |-> Some(d.extension),
     file_path |-> Some(key), downloaded_format |-> Some(d.used_format),
     download_url |-> IF has_url THEN Some(DownloadUrl(store_id, key)) ELSE None]

\* a handler that logs the failure and raises it again
PsvExceptReraise(inf, msg, q) ==
    [raised |-> TRUE,
     rec |-> [video_id |-> inf.id, url |-> ItemUrl(inf), error |-> msg,
              quality_requested |-> q, downloaded_format |-> None,
              download_url |-> None, collected_at |-> "now"]]

\* process_single_video's "except Exception" handler
PsvExcept(inf, msg, q) ==
    [raised |-> FALSE,
     rec |-> [video_id |-> inf.id, url |-> ItemUrl(inf), error |-> msg,
              quality_requested |-> q, downloaded_format |-> None,
              download_url |-> None, collected_at |-> "now"]]

\* a handler that logs the failure and returns no record
ProcessUrlExceptNoRecord(u, msg, q) == <<>>

\* process_url's "except Exception" handler: the list it returns
ProcessUrlExcept(u, msg, q) ==
    << [url |-> Some(u), error |-> msg, quality_requested |-> q,
        collected_at |-> "now"] >>

\* a filter that stops at the first null entry
RECURSIVE FilterEntriesUntilNull(_)
FilterEntriesUntilNull(es) ==
    IF es = <<>> \/ Head(es) = None
    THEN <<>>
    ELSE <<Head(es)>> \o FilterEntriesUntilNull(Tail(es))

\* "entries = [e for e in entries if e is not None]"
FilterEntries(es) == SelectSeq(es, LAMBDA e : e # None)

\* "if entry:" - a dict is true when it has a key
EntryTruthy(inf) ==
    inf.id # None \/ inf.title # None \/ inf.webpage_url # None \/ inf.url # None

\* a test that takes both modes for a download request
ShouldDownloadAlways(mode) == mode \in {"videos", "metadata_only"}

\* "if download_mode == 'videos'"
ShouldDownload(mode) == mode = "videos"

\* a test that counts every record
IsSuccessAlways(rec) == TRUE

\* "'error' not in metadata"
IsSuccess(rec) == "error" \notin DOMAIN rec

\* number of records of a list that lack an error field
RECURSIVE CountSuccess(_)
CountSuccess(recs) ==
    IF recs = <<>> THEN 0
    ELSE (IF IsSuccess(Head(recs)) THEN 1 ELSE 0) + CountSuccess(Tail(recs))

\* a validation that wants the URL to start with the domain
RECURSIVE ValidUrlsPrefix(_)
ValidUrlsPrefix(us) ==
    IF us = <<>> THEN <<>>
    ELSE IF StartsWith(Head(us), S_vimeo_com)
         THEN <<Head(us)>> \o ValidUrlsPrefix(Tail(us))
         ELSE ValidUrlsPrefix(Tail(us))

\* main: "if 'vimeo.com' in url: valid_urls.append(url)"
RECURSIVE ValidUrls(_)
ValidUrls(us) ==
    IF us = <<>> THEN <<>>
    ELSE IF Contains(Head(us), S_vimeo_com)
         THEN <<Head(us)>> \o ValidUrls(Tail(us))
         ELSE ValidUrls(Tail(us))

\* main: downloadMode falls back to 'videos'
NormalMode(m) == IF m \in {"videos", "metadata_only"} THEN m ELSE "videos"

\* main: quality falls back to 'best'
NormalQuality(q) ==
    IF q \in {S_best, S_720p, S_1080p, S_audio_only} THEN q ELSE S_best

\* _find_downloaded_media(directory): None or Some(newest media file)
_find_downloaded_media(files) ==
    LET candidates == {f \in files : Lower(f.suffix) \in MEDIA_FILE_EXTENSIONS}
    IN  IF candidates = {}
        THEN None
        ELSE Some(CHOOSE f \in candidates :
                     \A g \in candidates : g.mtime <= f.mtime)

\* download_video_file: the format selector put in opts['format']
SelectedFormat(q) ==
    IF Lower(q) = S_audio_only
    THEN "bestaudio/best"
    ELSE _build_format_candidates(Some(q))[1]

----------------------------------------------------------------------------
(* State machine *)

\* what main fixes for the whole job
jobvars ==
    <<urls, valid_urls, batch, download_mode, quality, cookies, proxy_url,
      proxy_configuration, store_has_id, fn>>

\* dl when no download_video_file call is running
NoDl ==
    [dir |-> 0, format |-> "", files |-> {}, size |-> 0, extension |-> <<>>]

\* info when no item is being processed
NoInfo == [id |-> None, title |-> None, webpage_url |-> None, url |-> None]

\* the state before main runs
MainIdle ==
    /\ urls = <<>> /\ valid_urls = <<>> /\ batch = None
    /\ download_mode = "videos" /\ quality = S_best /\ cookies = FALSE
    /\ proxy_url = None /\ proxy_configuration = FALSE
    /\ active_proxy_url = None /\ store_has_id = TRUE
    /\ total_processed = 0 /\ total_success = 0
    /\ entries = <<>> /\ results = <<>> /\ cookie_dir = FALSE
    /\ info = NoInfo /\ scratch = {} /\ dl = NoDl
    /\ dataset = <<>> /\ kv_store = <<>> /\ calls = <<>> /\ url_log = <<>>
    /\ faults = 0

\* the list of n valid URLs the batch is explored with
BatchUrls(n) == [i \in 1..n |-> IF i % 2 = 1 THEN U_plain ELSE U_sub]

\* The batch: process_urls is entered with a non-empty list of valid URLs
\* and the settings main normalised.  The job whose store exposes no id is
\* explored with a single URL.
Init ==
    /\ pc = "rotate"
    /\ fn = [op |-> "none"]
    /\ \E us \in {BatchUrls(n) : n \in 1..MaxUrls}, job \in BatchSettings :
        /\ job.store_has_id \/ Len(us) = 1
        /\ urls = us /\ valid_urls = us /\ batch = Some(us)
        /\ download_mode = job.mode /\ quality = job.quality
        /\ cookies = job.cookies
        /\ proxy_url = job.proxy.proxy_url
        /\ proxy_configuration = job.proxy.proxy_configuration
        /\ store_has_id = job.store_has_id
    /\ active_proxy_url = None
    /\ total_processed = 0 /\ total_success = 0
    /\ entries = <<>> /\ results = <<>> /\ cookie_dir = FALSE
    /\ info = NoInfo /\ scratch = {} /\ dl = NoDl
    /\ dataset = <<>> /\ kv_store = <<>> /\ calls = <<>> /\ url_log = <<>>
    /\ faults = 0

\* The entry point: main has its input and has not run yet.
InitMain ==
    /\ pc = "start"
    /\ MainIdle
    /\ fn = [op |-> "none"]

\* entries the extraction library has returned so far in this run
RECURSIVE UsedEntries(_)
UsedEntries(log) ==
    IF log = <<>> THEN 0 ELSE Len(Head(log).raw) + UsedEntries(Tail(log))

\* the URL process_urls is iterating
CurrentUrl == batch[1][total_processed + 1]

\* main(), from the parsed list `urls` to the call of process_urls
Main ==
    /\ pc = "start"
    /\ \E us \in SeqsUpTo(UrlPool, MaxInputUrls), job \in JobInputs :
        /\ urls' = us
        /\ IF us = <<>>
           THEN /\ pc' = "done"
                /\ UNCHANGED <<valid_urls, batch, download_mode, quality,
                               cookies, proxy_url, proxy_configuration,
                               store_has_id>>
           ELSE /\ proxy_url' = job.proxy.proxy_url
                /\ proxy_configuration' = job.proxy.proxy_configuration
                /\ download_mode' = NormalMode(job.mode)
                /\ quality' = NormalQuality(job.quality)
                /\ valid_urls' = ValidUrls(us)
                /\ IF ValidUrls(us) = <<>>
                   THEN /\ pc' = "done"
                        /\ UNCHANGED <<batch, cookies, store_has_id>>
                   ELSE /\ cookies' = job.cookies
                        /\ store_has_id' = job.store_has_id
                        /\ batch' = Some(ValidUrls(us))
                        /\ pc' = "rotate"
    /\ UNCHANGED <<active_proxy_url, total_processed, total_success, entries,
                   results, cookie_dir, info, scratch, dl, dataset, kv_store,
                   calls, url_log, faults, fn>>

\* a fallback to the proxy the previous URL used
ActiveProxyKeepLast(out) ==
    IF out = "fresh" THEN Some("rotated") ELSE active_proxy_url

\* process_urls: the proxy chosen for one URL from the rotation outcome
ActiveProxy(out) == IF out = "fresh" THEN Some("rotated") ELSE proxy_url

\* process_urls, loop head: choose the proxy for this URL
Rotate ==
    /\ pc = "rotate"
    /\ \E out \in (IF proxy_configuration
                   THEN {"fresh", "empty", "raise"} ELSE {"off"}) :
        /\ out = "raise" => faults < MaxFaults
        /\ faults' = IF out = "raise" THEN faults + 1 ELSE faults
        /\ active_proxy_url' = ActiveProxy(out)
        /\ url_log' = Append(url_log,
              [url |-> CurrentUrl, rotation |-> out,
               proxy |-> ActiveProxy(out), kind |-> "pending",
               raw |-> <<>>, pushed |-> 0])
    /\ pc' = "extract"
    /\ UNCHANGED <<jobvars, total_processed, total_success, entries, results,
                   cookie_dir, info, scratch, dl, dataset, kv_store, calls>>

\* the list process_url iterates for a collection result
CollectionEntries(raw) ==
    LET kept == FilterEntries(raw)
    IN  [i \in 1..Len(kept) |-> kept[i][1]]

\* process_url: extraction of the current URL
Extract ==
    /\ pc = "extract"
    /\ \/ \E msg \in {"authentication required"} :
            /\ faults < MaxFaults
            /\ faults' = faults + 1
            /\ results' = ProcessUrlExcept(CurrentUrl, msg, quality)
            /\ url_log' = [url_log EXCEPT ![Len(url_log)].kind = "raise"]
            /\ pc' = "push"
            /\ UNCHANGED <<entries, cookie_dir>>
       \/ \E i \in Items :
            /\ UsedEntries(url_log) < MaxEntries
            /\ entries' = <<i>>
            /\ url_log' = [url_log EXCEPT ![Len(url_log)].kind = "single",
                                          ![Len(url_log)].raw = <<Some(i)>>]
            /\ cookie_dir' = cookies
            /\ pc' = "entry"
            /\ UNCHANGED <<results, faults>>
       \/ \E raw \in SeqsUpTo(EntryPool, MaxEntries - UsedEntries(url_log)) :
            /\ entries' = CollectionEntries(raw)
            /\ url_log' = [url_log EXCEPT ![Len(url_log)].kind = "collection",
                                          ![Len(url_log)].raw = raw]
            /\ cookie_dir' = cookies
            /\ pc' = "entry"
            /\ UNCHANGED <<results, faults>>
    /\ UNCHANGED <<jobvars, active_proxy_url, total_processed, total_success,
                   info, scratch, dl, dataset, kv_store, calls>>

\* how process_single_video hands its outcome r back to process_url
\* (download: how download_video_file ended; store: how far the store
\* calls got):
\* a returned record is appended to results; an exception reaches
\* process_url's own handler
PsvFinish(r, download, store) ==
    /\ calls' = Append(calls,
          [url_idx |-> total_processed + 1, item |-> info,
           download |-> download, store |-> store, raised |-> r.raised,
           rec |-> r.rec])
    /\ IF r.raised
       THEN /\ results' = ProcessUrlExcept(CurrentUrl, r.rec.error, quality)
            /\ entries' = <<>>
            /\ cookie_dir' = FALSE
            /\ pc' = "push"
       ELSE /\ results' = Append(results, r.rec)
            /\ pc' = "entry"
            /\ UNCHANGED <<entries, cookie_dir>>

\* process_url: take the next entry and start process_single_video on it
ProcessEntry ==
    /\ pc = "entry"
    /\ entries # <<>>
    /\ LET e == Head(entries)
       IN  IF ~EntryTruthy(e)
           THEN /\ entries' = Tail(entries)
                /\ UNCHANGED <<pc, info, results, calls>>
           ELSE IF ShouldDownload(download_mode)
           THEN /\ entries' = Tail(entries)
                /\ info' = e
                /\ pc' = "dl_enter"
                /\ UNCHANGED <<results, calls>>
           ELSE /\ entries' = Tail(entries)
                /\ info' = NoInfo
                /\ results' = Append(results, MetadataOnlyRecord(e, quality))
                /\ calls' = Append(calls,
                      [url_idx |-> total_processed + 1, item |-> e,
                       download |-> "skipped", store |-> "none",
                       raised |-> FALSE,
                       rec |-> MetadataOnlyRecord(e, quality)])
                /\ UNCHANGED pc
    /\ UNCHANGED <<jobvars, active_proxy_url, total_processed, total_success,
                   cookie_dir, scratch, dl, dataset, kv_store, url_log, faults>>

\* process_url: "return results" and the finally block
ReturnResults ==
    /\ pc = "entry"
    /\ entries = <<>>
    /\ cookie_dir' = FALSE
    /\ pc' = "push"
    /\ UNCHANGED <<jobvars, active_proxy_url, total_processed, total_success,
                   entries, results, info, scratch, dl, dataset, kv_store,
                   calls, url_log, faults>>

\* _clear_directory(directory): every entry is removed
_clear_directory(files) == {}

\* the cookie jar download_video_file writes into its scratch directory
F_cookies == [suffix |-> <<".","t","x","t">>, mtime |-> 0, size |-> 1]

\* "info.get('id', 'unknown')"
KeyId(inf) == IF inf.id = None THEN S_unknown ELSE inf.id[1]

\* download_video_file: resolve the URL, create the scratch directory,
\* assemble the options, clear the directory
DlEnter ==
    /\ pc = "dl_enter"
    /\ IF ItemUrl(info) = None
       THEN /\ PsvFinish(PsvExcept(info, "Video URL missing from info dict",
                                   quality), "missing_url", "none")
            /\ info' = NoInfo
            /\ UNCHANGED <<scratch, dl>>
       ELSE /\ scratch' = scratch \cup {Len(calls) + 1}
            /\ dl' = [NoDl EXCEPT
                        !.dir = Len(calls) + 1,
                        !.format = SelectedFormat(quality),
                        !.files = _clear_directory(
                                     IF cookies THEN {F_cookies} ELSE {})]
            /\ pc' = "dl_run"
            /\ UNCHANGED <<info, entries, results, cookie_dir, calls>>
    /\ UNCHANGED <<jobvars, active_proxy_url, total_processed, total_success,
                   dataset, kv_store, url_log, faults>>

\* a "with" block that leaves its directory behind
TemporaryDirectoryKeep(dirs, d) == dirs

\* leaving "with tempfile.TemporaryDirectory() as temp_dir", by return or
\* by exception: the directory is removed
TemporaryDirectoryExit(dirs, d) == dirs \ {d}

\* download_video_file: ydl.download([url])
DlRun ==
    /\ pc = "dl_run"
    /\ \/ /\ faults < MaxFaults
          /\ faults' = faults + 1
          /\ scratch' = TemporaryDirectoryExit(scratch, dl.dir)
          /\ dl' = NoDl
          /\ info' = NoInfo
          /\ PsvFinish(PsvExcept(info, "download error", quality),
                       "lib_error", "none")
       \/ \E files \in EmptyOutcomes :
          /\ faults < MaxFaults
          /\ faults' = faults + 1
          /\ dl' = [dl EXCEPT !.files = files]
          /\ pc' = "dl_collect"
          /\ UNCHANGED <<info, scratch, entries, results, cookie_dir, calls>>
       \/ /\ dl' = [dl EXCEPT !.files = MediaOf(info)]
          /\ pc' = "dl_collect"
          /\ UNCHANGED <<info, scratch, entries, results, cookie_dir, calls,
                         faults>>
    /\ UNCHANGED <<jobvars, active_proxy_url, total_processed, total_success,
                   dataset, kv_store, url_log>>

\* a read that stops one byte short
ReadShort(f) == f.size - 1

\* "data = f.read()": the number of bytes read from a file
ReadAll(f) == f.size

\* download_video_file: locate the media file, read it, leave the
\* TemporaryDirectory block
DlCollect ==
    /\ pc = "dl_collect"
    /\ scratch' = TemporaryDirectoryExit(scratch, dl.dir)
    /\ \/ /\ _find_downloaded_media(dl.files) = None
          /\ dl' = NoDl
          /\ info' = NoInfo
          /\ PsvFinish(PsvExcept(info,
                "Download completed but no media file was produced",
                quality), "no_media", "none")
          /\ UNCHANGED faults
       \/ /\ _find_downloaded_media(dl.files) # None
          /\ faults < MaxFaults
          /\ faults' = faults + 1
          /\ dl' = NoDl
          /\ info' = NoInfo
          /\ PsvFinish(PsvExcept(info, "read error", quality),
                       "read_error", "none")
       \/ /\ _find_downloaded_media(dl.files) # None
          /\ dl' = [dl EXCEPT
                      !.files = {},
                      !.size = ReadAll(_find_downloaded_media(dl.files)[1]),
                      !.extension = Lower(LstripDot(
                          _find_downloaded_media(dl.files)[1].suffix))]
          /\ pc' = "store"
          /\ UNCHANGED <<info, entries, results, cookie_dir, calls, faults>>
    /\ UNCHANGED <<jobvars, active_proxy_url, total_processed, total_success,
                   dataset, kv_store, url_log>>

\* what download_video_file returned, as the record builders read it
Downloaded == [size |-> dl.size, extension |-> dl.extension,
               used_format |-> dl.format]

\* process_single_video after the download: key, Actor.set_value,
\* Actor.open_key_value_store, download_url
PsvStore ==
    /\ pc = "store"
    /\ LET key == _generate_safe_key(KeyId(info), dl.extension)
           put == [key |-> key, size |-> dl.size,
                   content_type |-> _guess_content_type(dl.extension),
                   call |-> Len(calls) + 1]
       IN  \/ /\ faults < MaxFaults
              /\ faults' = faults + 1
              /\ PsvFinish(PsvExcept(info, "set_value failed", quality),
                           "ok", "put_error")
              /\ UNCHANGED kv_store
           \/ /\ faults < MaxFaults
              /\ faults' = faults + 1
              /\ kv_store' = Append(kv_store, put)
              /\ PsvFinish(PsvExcept(info, "open_key_value_store failed",
                                     quality), "ok", "open_error")
           \/ /\ kv_store' = Append(kv_store, put)
              /\ PsvFinish([raised |-> FALSE,
                            rec |-> DownloadedRecord(info, quality, Downloaded,
                                       key, store_has_id, "store-id")],
                           "ok", "ok")
              /\ UNCHANGED faults
    /\ dl' = NoDl
    /\ info' = NoInfo
    /\ UNCHANGED <<jobvars, active_proxy_url, total_processed, total_success,
                   scratch, dataset, url_log>>

\* process_urls: push the records of one URL, count, go to the next URL
PushResults ==
    /\ pc = "push"
    /\ dataset' = dataset \o results
    /\ total_success' = total_success + CountSuccess(results)
    /\ total_processed' = total_processed + 1
    /\ url_log' = [url_log EXCEPT ![Len(url_log)].pushed = Len(results)]
    /\ results' = <<>>
    /\ pc' = IF total_processed + 1 < Len(batch[1]) THEN "rotate" ELSE "done"
    /\ UNCHANGED <<jobvars, active_proxy_url, entries, cookie_dir, info,
                   scratch, dl, kv_store, calls, faults>>

Next ==
    \/ Rotate
    \/ Extract
    \/ ProcessEntry
    \/ ReturnResults
    \/ DlEnter
    \/ DlRun
    \/ DlCollect
    \/ PsvStore
    \/ PushResults

Spec == Init /\ [][Next]_vars

\* main alone, up to its call of process_urls or its early return
NextMain == Main

SpecMain == InitMain /\ [][NextMain]_vars

----------------------------------------------------------------------------
(* The pure helpers on their own: Init draws an input, one action applies
   the function to it. *)

\* n copies of the character c
Fill(c, n) == [i \in 1..n |-> c]

\* extensions download_video_file can return:
\* media_path.suffix.lstrip('.').lower() of a file _find_downloaded_media accepts
ReturnedExtensions == {LstripDot(Lower(e)) : e \in MEDIA_FILE_EXTENSIONS}

\* video ids tried: a run of letters, possibly holding ".mp4" or "/" inside
KeyIds ==
    { Fill("a", n) \o mid \o Fill("z", m) :
        n \in 0..MaxIdLen,
        mid \in {<<>>, <<".","m","p","4">>, <<"/">>},
        m \in {0, 3} }

InitKey ==
    /\ pc = "fn"
    /\ MainIdle
    /\ \E v \in KeyIds, e \in ReturnedExtensions :
        fn = [op |-> "key", video_id |-> v, extension |-> e, out |-> None]

\* key = _generate_safe_key(video_id, extension)
ApplyKey ==
    /\ pc = "fn"
    /\ fn.op = "key"
    /\ fn.out = None
    /\ fn' = [fn EXCEPT !.out = Some(_generate_safe_key(fn.video_id, fn.extension))]
    /\ UNCHANGED <<pc, urls, valid_urls, batch, download_mode, quality,
                   cookies, proxy_url, proxy_configuration, active_proxy_url,
                   store_has_id, total_processed, total_success, entries,
                   results, cookie_dir, info, scratch, dl, dataset, kv_store,
                   calls, url_log, faults>>

NextKey == ApplyKey

SpecKey == InitKey /\ [][NextKey]_vars

\* the word w with the letters at the positions in `up` in upper case
WithCase(w, up) == [i \in 1..Len(w) |-> IF i \in up THEN UpperChar(w[i]) ELSE w[i]]

\* the quality labels _build_format_candidates recognises
RecognizedQualities == {S_audio_only, S_audio, S_1080p, S_1080, S_720p, S_720, S_best}

\* quality arguments tried: absent, empty, unrecognised, and every
\* recognised label in every letter case
QualityArgs ==
    {None, Some(<<>>), Some(S_4k), Some(S_unknown)}
    \cup {Some(WithCase(w, up)) : w \in RecognizedQualities, up \in SUBSET (1..10)}

InitFmt ==
    /\ pc = "fn"
    /\ MainIdle
    /\ \E q \in QualityArgs : fn = [op |-> "fmt", quality |-> q, out |-> None]

\* ordered = _build_format_candidates(quality)
ApplyFmt ==
    /\ pc = "fn"
    /\ fn.op = "fmt"
    /\ fn.out = None
    /\ fn' = [fn EXCEPT !.out = Some(_build_format_candidates(fn.quality))]
    /\ UNCHANGED <<pc, urls, valid_urls, batch, download_mode, quality,
                   cookies, proxy_url, proxy_configuration, active_proxy_url,
                   store_has_id, total_processed, total_success, entries,
                   results, cookie_dir, info, scratch, dl, dataset, kv_store,
                   calls, url_log, faults>>

NextFmt == ApplyFmt

SpecFmt == InitFmt /\ [][NextFmt]_vars

\* tokens a cookie text given in the job input can hold
CookieTokens == JsonScalars \cup JsonKeys \cup {"[", "]", "{", "}"}

\* JSON objects a cookie list can hold: a full cookie, one without a value,
\* one without a name, one whose name is 0, one whose value is null, one
\* whose value holds the marker, one with the name given twice, one whose
\* value is a list
CookieObjects ==
    { <<"{", "name", "s", "value", "s", "}">>,
      <<"{", "name", "s", "}">>,
      <<"{", "value", "s", "}">>,
      <<"{", "name", "0", "value", "s", "}">>,
      <<"{", "name", "s", "value", "null", "}">>,
      <<"{", "name", "s", "value", T_marker, "}">>,
      <<"{", "name", "0", "name", "s", "value", "0", "}">>,
      <<"{", "name", "s", "value", "[", "s", "]", "}">> }

\* the concatenation of a sequence of texts
RECURSIVE Concat(_)
Concat(texts) == IF texts = <<>> THEN <<>> ELSE Head(texts) \o Concat(Tail(texts))

\* cookie texts tried: every token sequence up to MaxCookieLen (the empty
\* text, cookie-jar texts, JSON scalars, short lists and objects, malformed
\* JSON), every single cookie object, and every JSON list of up to
\* MaxCookies cookie objects, whole or with its closing bracket missing
CookieTexts ==
    SeqsUpTo(CookieTokens, MaxCookieLen)
    \cup CookieObjects
    \cup { <<"[">> \o Concat(os) \o close :
             os \in SeqsUpTo(CookieObjects, MaxCookies), close \in {<<"]">>, <<>>} }

InitCookie ==
    /\ pc = "fn"
    /\ MainIdle
    /\ \E c \in CookieTexts :
        fn = [op |-> "cookie", json_cookies |-> c, out |-> None, again |-> None]

\* netscape_cookies = _convert_json_cookies_to_netscape(cookies)
ApplyCookie ==
    /\ pc = "fn"
    /\ fn.op = "cookie"
    /\ fn.out = None
    /\ fn' = [fn EXCEPT !.out = Some(_convert_json_cookies_to_netscape(fn.json_cookies))]
    /\ UNCHANGED <<pc, urls, valid_urls, batch, download_mode, quality,
                   cookies, proxy_url, proxy_configuration, active_proxy_url,
                   store_has_id, total_processed, total_success, entries,
                   results, cookie_dir, info, scratch, dl, dataset, kv_store,
                   calls, url_log, faults>>

\* the normalizer applied to its own output
ApplyCookieAgain ==
    /\ pc = "fn"
    /\ fn.op = "cookie"
    /\ fn.out # None
    /\ fn.again = None
    /\ fn' = [fn EXCEPT !.again = Some(_convert_json_cookies_to_netscape(fn.out[1]))]
    /\ UNCHANGED <<pc, urls, valid_urls, batch, download_mode, quality,
                   cookies, proxy_url, proxy_configuration, active_proxy_url,
                   store_has_id, total_processed, total_success, entries,
                   results, cookie_dir, info, scratch, dl, dataset, kv_store,
                   calls, url_log, faults>>

NextCookie ==
    \/ ApplyCookie
    \/ ApplyCookieAgain

SpecCookie == InitCookie /\ [][NextCookie]_vars

----------------------------------------------------------------------------
(* Properties *)

\* records pushed for the URLs before the i-th
RECURSIVE PushedBefore(_)
PushedBefore(i) ==
    IF i <= 1 THEN 0 ELSE url_log[i - 1].pushed + PushedBefore(i - 1)

\* the records the dataset holds for the i-th URL
Block(i) ==
    SubSeq(dataset, PushedBefore(i) + 1, PushedBefore(i) + url_log[i].pushed)

\* the process_single_video calls made for the i-th URL, in order
CallsOf(i) == SelectSeq(calls, LAMBDA c : c.url_idx = i)

\* the records those calls returned
RecsOf(cs) == [k \in 1..Len(cs) |-> cs[k].rec]

\* the items of a raw entry list that are not null, in order
RECURSIVE NonNullItems(_)
NonNullItems(raw) ==
    IF raw = <<>> THEN <<>>
    ELSE IF Head(raw) = None THEN NonNullItems(Tail(raw))
         ELSE <<Head(raw)[1]>> \o NonNullItems(Tail(raw))

\* how download_video_file can fail
DownloadFailures == {"missing_url", "lib_error", "no_media", "read_error"}

\* positions inside process_single_video's download branch
DownloadPcs == {"dl_enter", "dl_run", "dl_collect", "store"}

\* C1: every URL process_urls has iterated has at least one record in the
\* dataset, and process_url never hands back an empty list.
C1_EveryUrlYieldsARecord ==
    /\ \A i \in 1..total_processed : url_log[i].pushed >= 1
    /\ pc = "push" => results # <<>>

\* steps left, as a number that every step of the batch lowers
BatchMeasure ==
    LET W == 8 * (MaxEntries + 2)
        rank == CASE pc = "rotate" -> W - 1
                  [] pc = "extract" -> W - 2
                  [] pc = "dl_enter" -> 8 * Len(entries) + 5
                  [] pc = "dl_run" -> 8 * Len(entries) + 4
                  [] pc = "dl_collect" -> 8 * Len(entries) + 3
                  [] pc = "store" -> 8 * Len(entries) + 2
                  [] pc = "entry" -> 8 * Len(entries) + 1
                  [] OTHER -> 0
    IN  W * (Len(batch[1]) - total_processed) + rank

\* the step the batch is at can be taken
StepEnabled ==
    CASE pc = "rotate" -> ENABLED Rotate
      [] pc = "extract" -> ENABLED Extract
      [] pc = "entry" -> ENABLED (ProcessEntry \/ ReturnResults)
      [] pc = "dl_enter" -> ENABLED DlEnter
      [] pc = "dl_run" -> ENABLED DlRun
      [] pc = "dl_collect" -> ENABLED DlCollect
      [] pc = "store" -> ENABLED PsvStore
      [] pc = "push" -> ENABLED PushResults
      [] OTHER -> FALSE

\* what C2 says of one state
C2_State ==
    /\ Len(url_log) \in {total_processed, total_processed + 1}
    /\ \A i \in 1..Len(url_log) : url_log[i].url = batch[1][i]
    /\ \A i \in 1..total_processed :
          url_log[i].kind = "raise" =>
              /\ url_log[i].pushed = 1
              /\ "error" \in DOMAIN Block(i)[1]
              /\ Block(i)[1].error # ""
              /\ Block(i)[1].url = Some(batch[1][i])
    /\ \A k \in 1..Len(calls) :
          (calls[k].download \in DownloadFailures /\ calls[k].url_idx <= total_processed) =>
              \E j \in 1..Len(Block(calls[k].url_idx)) :
                  /\ Block(calls[k].url_idx)[j] = calls[k].rec
                  /\ "error" \in DOMAIN calls[k].rec
    /\ pc = "done" => total_processed = Len(batch[1])
    /\ pc # "done" => StepEnabled

\* C2: process_urls never aborts the batch: a URL whose extraction or
\* download fails gets an error record, the URLs are iterated in input
\* order, the loop is never stuck before the end of the list and every
\* step brings it closer to that end.
C2_BatchNeverAborts ==
    /\ []C2_State
    /\ [][BatchMeasure' < BatchMeasure]_vars

C2_Witness ==
    /\ pc = "done"
    /\ total_processed = 2
    /\ url_log[1].kind = "raise"
    /\ "error" \in DOMAIN dataset[1]
    /\ url_log[2].pushed >= 1
    /\ \E j \in 2..Len(dataset) : "error" \notin DOMAIN dataset[j]

\* C3: a download and a store put happen only in 'videos' mode; in
\* metadata-only mode nothing is downloaded or stored and every success
\* record has its five download fields null.
C3_DownloadOnlyInVideosMode ==
    LET downloading ==
            \/ pc \in DownloadPcs
            \/ scratch # {}
            \/ kv_store # <<>>
            \/ \E k \in 1..Len(calls) :
                  calls[k].download # "skipped" \/ calls[k].store # "none"
        recs == dataset \o results
    IN  /\ downloading => download_mode = "videos"
        /\ download_mode = "metadata_only" =>
              \A j \in 1..Len(recs) :
                  "error" \notin DOMAIN recs[j] =>
                      /\ {"file_size", "file_extension", "file_path",
                          "downloaded_format", "download_url"}
                             \subseteq DOMAIN recs[j]
                      /\ recs[j].file_size = None
                      /\ recs[j].file_extension = None
                      /\ recs[j].file_path = None
                      /\ recs[j].downloaded_format = None
                      /\ recs[j].download_url = None

C3_Witness ==
    /\ download_mode = "metadata_only"
    /\ \E j \in 1..Len(dataset) :
          /\ "error" \notin DOMAIN dataset[j]
          /\ dataset[j].video_id = Some(<<"1","2">>)

\* C4: for a collection, process_single_video is called exactly once per
\* non-null entry, in the order of the entries, and the records returned
\* and pushed for the URL are those calls' records in that order.
C4_OneRecordPerNonNullEntry ==
    /\ \A i \in 1..total_processed :
          url_log[i].kind = "collection" =>
              LET cs == CallsOf(i)
                  items == NonNullItems(url_log[i].raw)
              IN  /\ Len(cs) = Len(items)
                  /\ \A k \in 1..Len(cs) : cs[k].item = items[k]
                  /\ url_log[i].pushed = Len(items)
                  /\ Block(i) = RecsOf(cs)
    /\ (pc = "push" /\ url_log[Len(url_log)].kind = "collection") =>
          /\ results = RecsOf(CallsOf(total_processed + 1))
          /\ Len(results) = Len(NonNullItems(url_log[Len(url_log)].raw))

C4_Witness ==
    \E i \in 1..total_processed :
        /\ url_log[i].kind = "collection"
        /\ url_log[i].raw = <<Some(Item1), None, Some(Item2)>>
        /\ Len(Block(i)) = 2

\* C5: process_single_video never lets an exception reach its caller; a
\* failure of the download, of the put or of opening the store comes back
\* as an error record with exactly the documented fields.
C5_PsvNeverRaises ==
    \A k \in 1..Len(calls) :
        /\ ~calls[k].raised
        /\ (calls[k].download \in DownloadFailures
              \/ calls[k].store \in {"put_error", "open_error"}) =>
              /\ DOMAIN calls[k].rec =
                    {"video_id", "url", "error", "quality_requested",
                     "downloaded_format", "download_url", "collected_at"}
              /\ calls[k].rec.video_id = calls[k].item.id
              /\ calls[k].rec.url = ItemUrl(calls[k].item)
              /\ calls[k].rec.quality_requested = quality
              /\ calls[k].rec.downloaded_format = None
              /\ calls[k].rec.download_url = None
              /\ \E j \in 1..Len(dataset \o results) :
                    (dataset \o results)[j] = calls[k].rec

C5_Witness ==
    /\ \E k \in 1..Len(calls) : calls[k].store = "open_error"
    /\ pc = "done"

\* the size of the file _find_downloaded_media picks among an item's files
CompleteSize(inf) ==
    LET media == {f \in MediaOf(inf) :
                     Lower(f.suffix) \in MEDIA_FILE_EXTENSIONS}
    IN  (CHOOSE f \in media : \A g \in media : g.mtime <= f.mtime).size

\* C6: an item whose download failed has no put in the store and an error
\* record; every put belongs to a call whose download returned, and holds
\* the whole file.
C6_NoPutAfterFailedDownload ==
    /\ \A k \in 1..Len(calls) :
          calls[k].download \in DownloadFailures =>
              /\ \A j \in 1..Len(kv_store) : kv_store[j].call # k
              /\ "error" \in DOMAIN calls[k].rec
    /\ \A j \in 1..Len(kv_store) :
          /\ kv_store[j].call \in 1..Len(calls)
          /\ calls[kv_store[j].call].download = "ok"
          /\ kv_store[j].size = CompleteSize(calls[kv_store[j].call].item)

C6_Witness ==
    /\ \E k \in 1..Len(calls) : calls[k].download = "no_media"
    /\ \E k \in 1..Len(calls) : calls[k].download = "ok"
    /\ kv_store # <<>>

\* b lists exactly the elements of us that hold the domain, in order
IsDomainFilter(b, us) ==
    \E f \in [1..Len(b) -> 1..Len(us)] :
        /\ \A i, j \in 1..Len(b) : i < j => f[i] < f[j]
        /\ \A i \in 1..Len(b) : b[i] = us[f[i]]
        /\ {f[i] : i \in 1..Len(b)} =
              {j \in 1..Len(us) : Contains(us[j], S_vimeo_com)}

\* C7: main hands process_urls exactly the input URLs that contain
\* 'vimeo.com', in input order; when none does, main returns without
\* calling process_urls and the dataset stays empty.
C7_OnlyVimeoUrlsReachTheBatch ==
    pc # "start" =>
        /\ batch # None => (pc = "rotate" /\ IsDomainFilter(batch[1], urls))
        /\ (\E j \in 1..Len(urls) : Contains(urls[j], S_vimeo_com)) =>
              batch # None
        /\ (\A j \in 1..Len(urls) : ~Contains(urls[j], S_vimeo_com)) =>
              (batch = None /\ pc = "done" /\ dataset = <<>>)

C7_Witness ==
    /\ urls = <<U_sub, U_other, U_plain>>
    /\ batch = Some(<<U_sub, U_plain>>)

\* C8: the key is at most 256 characters long and ends with "." and the
\* extension, also when the id is so long that the key is cut.
C8_KeyLengthAndSuffix ==
    (fn.op = "key" /\ fn.out # None) =>
        /\ Len(fn.out[1]) <= 256
        /\ EndsWith(fn.out[1], <<".">> \o fn.extension)

C8_Witness ==
    /\ fn.op = "key"
    /\ fn.out # None
    /\ Len(fn.video_id) + 1 + Len(fn.extension) > 256
    /\ fn.out[1] # SliceTo(fn.video_id \o <<".">> \o fn.extension, 256)

\* the characters the key-value store accepts in a key
AllowedKeyChars ==
    {LowerAlpha[i] : i \in 1..26} \cup {UpperAlpha[i] : i \in 1..26}
    \cup {"0","1","2","3","4","5","6","7","8","9"}
    \cup {"!", "-", "_", ".", "'", "(", ")"}

OnlyAllowedChars(key) == \A i \in 1..Len(key) : key[i] \in AllowedKeyChars

\* C9: every key given to the store and every file_path of a record
\* holds only characters the store accepts.
C9_KeysUseAllowedChars ==
    /\ \A j \in 1..Len(kv_store) : OnlyAllowedChars(kv_store[j].key)
    /\ \A j \in 1..Len(dataset) :
          ("file_path" \in DOMAIN dataset[j] /\ dataset[j].file_path # None) =>
              OnlyAllowedChars(dataset[j].file_path[1])

\* C10: for a recognised quality in any letter case the list is not empty,
\* holds no selector twice and ends with "best".
C10_ChainEndsWithBest ==
    (fn.op = "fmt" /\ fn.out # None /\ fn.quality # None
        /\ Lower(fn.quality[1]) \in RecognizedQualities) =>
        LET chain == fn.out[1]
        IN  /\ chain # <<>>
            /\ \A i, j \in 1..Len(chain) : i # j => chain[i] # chain[j]
            /\ chain[Len(chain)] = "best"

C10_Witness ==
    /\ fn.op = "fmt"
    /\ fn.out # None
    /\ fn.quality = Some(<<"7","2","0","P">>)
    /\ Len(fn.out[1]) = 4

\* C11: the Cookie Normalizer applied to its own output returns that output,
\* and a text holding the cookie-jar marker is returned as it is.
C11_CookieNormalizerIdempotent ==
    fn.op = "cookie" =>
        /\ fn.again # None => fn.again = fn.out
        /\ (fn.out # None
              /\ \E i \in 1..Len(fn.json_cookies) : fn.json_cookies[i] = T_marker) =>
              fn.out[1] = fn.json_cookies

C11_Witness ==
    /\ fn.op = "cookie"
    /\ fn.json_cookies =
          <<"[", "{", "name", "s", "}", "{", "name", "s", "value", "s", "}", "]">>
    /\ fn.out # None
    /\ Len(fn.out[1]) = 6 + 1 + 13
    /\ fn.out[1][Len(fn.out[1])] = "s"
    /\ fn.again = fn.out

\* C12: the scratch directory of a download exists only while that
\* download_video_file call is inside its "with" block; it is gone once the
\* call has returned or raised, no file of it is held after that, and there
\* is never more than one.
C12_ScratchDirRemoved ==
    /\ Cardinality(scratch) <= 1
    /\ \A k \in 1..Len(calls) : k \notin scratch
    /\ pc \in {"dl_run", "dl_collect"} => scratch = {dl.dir}
    /\ pc \notin {"dl_run", "dl_collect"} => (scratch = {} /\ dl.files = {})

C12_Witness ==
    /\ pc = "done"
    /\ scratch = {}
    /\ \E k \in 1..Len(calls) : calls[k].download = "ok"
    /\ \E k \in 1..Len(calls) : calls[k].download = "lib_error"

\* C13: with a provider configured a fresh proxy is requested once for each
\* URL before it is processed; when the request raises or returns nothing
\* the URL is processed with the static proxy URL (possibly none), and so
\* are later URLs whose request fails: a failed rotation leaves the static
\* proxy URL as it was.
C13_ProxyRotationFallsBack ==
    /\ Len(url_log) = total_processed + (IF pc \in {"rotate", "done"} THEN 0 ELSE 1)
    /\ \A i \in 1..Len(url_log) :
          /\ proxy_configuration <=> url_log[i].rotation \in {"fresh", "empty", "raise"}
          /\ url_log[i].rotation \in {"empty", "raise", "off"} =>
                url_log[i].proxy = proxy_url
          /\ url_log[i].rotation = "fresh" => url_log[i].proxy = Some("rotated")
          /\ i <= total_processed => url_log[i].kind # "pending"
    /\ pc \notin {"rotate", "done"} =>
          active_proxy_url = url_log[Len(url_log)].proxy
    /\ pc = "done" => total_processed = Len(batch[1])

C13_Witness ==
    /\ pc = "done"
    /\ proxy_url = None
    /\ total_processed = 2
    /\ url_log[1].rotation = "raise"
    /\ url_log[1].pushed >= 1
    /\ url_log[2].rotation = "fresh"
    /\ url_log[2].proxy = Some("rotated")

\* what C14 says of one state
C14_State ==
    /\ total_success =
          Cardinality({j \in 1..Len(dataset) : "error" \notin DOMAIN dataset[j]})
    /\ total_processed =
          Cardinality({i \in 1..Len(url_log) :
                          i < Len(url_log) \/ pc \in {"rotate", "done"}})
    /\ Len(dataset) = PushedBefore(total_processed + 1)

\* C14: after every iteration of the process_urls loop the success counter
\* is the number of dataset records without an error field and the processed
\* counter is the number of URLs iterated; no step lowers either counter.
C14_CountersMatchDataset ==
    /\ []C14_State
    /\ [][/\ total_success' >= total_success
           /\ total_processed' >= total_processed]_vars

C14_Witness ==
    /\ pc = "done"
    /\ total_processed = 2
    /\ total_success = 2
    /\ Len(dataset) = 3
    /\ "error" \in DOMAIN dataset[1]

====
